---- MODULE Spec2Model ----
(***************************************************************************)
(* FreshBakes order engine: cart -> order conversion, coupon pricing,      *)
(* stock mutation and the order status state machine, as implemented by    *)
(* the Flask/SQLAlchemy application under src/app.                         *)
(*                                                                         *)
(* Conventions.  Database ids are positive integers.  Python None and the  *)
(* other falsy numbers are the integer 0: the code only ever tests the     *)
(* optional columns (max_discount, usage_limit, valid_until, bakery_id of  *)
(* a coupon, discount_price) for truthiness.  Money is an integer number   *)
(* of rupees; every price of the model is a multiple of 100 and every      *)
(* percentage is a multiple of 5, so the float division by 100 in          *)
(* calculate_discount is exact.                                            *)
(***************************************************************************)
EXTENDS Integers, Sequences, FiniteSets, Bags, TLC

(* ------------------------------ bounds --------------------------------- *)
\* orders that may be placed in one behaviour
MaxOrders == 2
\* largest quantity a cart row may reach
MaxQty == 2

(* ------------------------- actors and inputs --------------------------- *)
Customers == {1, 2}
\* the customers who fill a cart and check out
Shoppers == {1}
\* the connections on which write_review requests arrive
Connections == {1, 2}
\* every account that may send a request
Users == {1, 2, 11, 12}
\* the baker owning bakery b is user Owner(b)
Bakers == {11, 12}
Bakeries == {1, 2}
Products == {1, 2}
QtyInputs == {1, 2}
\* the quantities typed into the cart handlers, which take any integer
CartQty == {-1, 0, 1, 2}
\* the quantities added at once in the behaviours of the status machine
BulkQty == {2}
OrderNumbers == {"LC-A", "LC-B"}
CouponCodes == {"SAVE"}
\* coupon codes a customer may type at checkout ("" = field left empty)
TypedCodes == {"", "SAVE", "NOPE"}
AddressIds == {1, 2}
\* values of the 'status' form field; "" is a missing field (None)
Statuses ==
    {"pending", "confirmed", "preparing", "ready", "out_for_delivery",
     "delivered", "cancelled"}
RequestedStatuses == Statuses \cup {"refunded", ""}

\* the product forms a baker submits: a new name, price and stock without a discount
\* price, and a discount price with the product taken off sale
ProductForms ==
    {[name |-> "Tart", price |-> 200, discount_price |-> 0, stock_quantity |-> 2,
      is_available |-> TRUE],
     [name |-> "Cake", price |-> 300, discount_price |-> 100, stock_quantity |-> 0,
      is_available |-> FALSE]}

\* the stock a product starts with: sold out, or one unit
StockLevels == {0, 1}

\* the ratings a customer may give
RatingInputs == {1, 5}
\* the ids of review rows: room for two reviews of one order and one of the other
ReviewIds == 1..(MaxOrders + 1)

\* order amounts sent to the coupon validation handler
OrderAmounts == {200}

\* datetime.utcnow() as read by the handlers
Now == 2

\* The forms a baker or an admin may submit to add_coupon / edit_coupon.
CouponForms ==
    { [code |-> "SAVE", discount_type |-> "percentage", discount_value |-> 10,
       min_order_amount |-> 0, max_discount |-> 15, usage_limit |-> 1,
       valid_until |-> 0],
      [code |-> "SAVE", discount_type |-> "percentage", discount_value |-> 150,
       min_order_amount |-> 0, max_discount |-> 0, usage_limit |-> 0,
       valid_until |-> 0],
      [code |-> "SAVE", discount_type |-> "fixed", discount_value |-> 500,
       min_order_amount |-> 300, max_discount |-> 0, usage_limit |-> 2,
       valid_until |-> 3],
      [code |-> "SAVE", discount_type |-> "fixed", discount_value |-> 50,
       min_order_amount |-> 0, max_discount |-> 0, usage_limit |-> 1,
       valid_until |-> 1] }

(* ------------------------------- state --------------------------------- *)
VARIABLES
    bakeries,       \* table bakeries:  id -> row
    addresses,      \* table addresses: id -> owning user_id
    products,       \* table products:  id -> row
    cart_items,     \* table cart_items: set of rows (user_id, product_id, quantity)
    coupons,        \* table coupons: set of rows, code unique
    orders,         \* table orders: sequence of rows, Order.id = index
    notifications,  \* table notifications: bag of rows (a row without its id and created_at)
    stock_before,   \* history: stock of every product just before order i was placed
    sessions,       \* per customer: the checkout request in progress and the rows its
                    \* database session has loaded (requests served concurrently)
    kv,             \* the variant deployments: the tables of app_aws.py, the dicts of app.py
    kv_requests,    \* per customer: the app_aws.py checkout request in progress
    call,           \* a call of a Coupon method: receiver, arguments, returned value
    reviews,        \* table reviews: set of rows
    review_requests \* the write_review requests in progress, one per connection

vars == <<bakeries, addresses, products, cart_items, coupons, orders,
          notifications, stock_before, sessions, kv, kv_requests, call,
          reviews, review_requests>>

\* what the handlers of src/app, run one request at a time, never touch
others == <<sessions, kv, kv_requests, call, review_requests>>

\* the persisted tables
tables == <<bakeries, addresses, products, cart_items, coupons, orders,
            notifications, reviews>>

\* the rows that no cart, checkout, status or coupon handler writes
static == <<bakeries, addresses, reviews>>

(* ----------------------------- helpers --------------------------------- *)
Min(a, b) == IF a <= b THEN a ELSE b

RECURSIVE SumOver(_, _)
\* Python sum(f(x) for x in rows) over a set of rows given as a function row -> number
SumOver(rows, f) ==
    IF rows = {} THEN 0
    ELSE LET r == CHOOSE x \in rows : TRUE
         IN f[r] + SumOver(rows \ {r}, f)

\* Product.current_price
current_price(p) ==
    IF p.discount_price # 0 /\ p.discount_price < p.price
    THEN p.discount_price
    ELSE p.price

\* CartItem.subtotal, with the product rows as the session holds them
CartSubtotal(ci, prods) == current_price(prods[ci.product_id]) * ci.quantity

\* subtotal of checkout (orders.py line 27)
Subtotal(cart, prods) == SumOver(cart, [ci \in cart |-> CartSubtotal(ci, prods)])

UserCart(u) == {ci \in cart_items : ci.user_id = u}


\* the bakery owned by a baker (current_user.bakery), 0 when there is none
BakeryOf(u) ==
    IF \E b \in Bakeries : bakeries[b].owner_id = u
    THEN CHOOSE b \in Bakeries : bakeries[b].owner_id = u
    ELSE 0

\* User.is_baker: the role column
is_baker(u) == u \in Bakers

\* decorator baker_required: a baker who owns an approved bakery
baker_required(u) ==
    is_baker(u) /\ BakeryOf(u) # 0 /\ bakeries[BakeryOf(u)].is_approved

\* the address query without its filter on the owner
valid_address_any_owner(u, address_id) == address_id \in DOMAIN addresses

\* Address.query.filter_by(id=address_id, user_id=current_user.id).first() finds a row
valid_address(u, address_id) ==
    address_id \in DOMAIN addresses /\ addresses[address_id] = u

CouponByCode(code) == {c \in coupons : c.code = code}

(* --------------------------- Coupon model ------------------------------ *)
\* is_valid with the minimum order amount tested before the usage limit
is_valid_message_amount_first(c, order_amount, bakery_id, now) ==
    IF ~c.is_active THEN "Coupon is not active"
    ELSE IF c.valid_from # 0 /\ now < c.valid_from THEN "Coupon is not yet valid"
    ELSE IF c.valid_until # 0 /\ now > c.valid_until THEN "Coupon has expired"
    ELSE IF order_amount < c.min_order_amount THEN "Minimum order amount"
    ELSE IF c.usage_limit # 0 /\ c.used_count >= c.usage_limit
         THEN "Coupon usage limit reached"
    ELSE IF c.bakery_id # 0 /\ bakery_id # 0 /\ c.bakery_id # bakery_id
         THEN "Coupon is not valid for this bakery"
    ELSE "Coupon is valid"

\* Coupon.is_valid: the reason of the first failing check, "Coupon is valid" if none
is_valid_message(c, order_amount, bakery_id, now) ==
    IF ~c.is_active THEN "Coupon is not active"
    ELSE IF c.valid_from # 0 /\ now < c.valid_from THEN "Coupon is not yet valid"
    ELSE IF c.valid_until # 0 /\ now > c.valid_until THEN "Coupon has expired"
    ELSE IF c.usage_limit # 0 /\ c.used_count >= c.usage_limit
         THEN "Coupon usage limit reached"
    ELSE IF order_amount < c.min_order_amount THEN "Minimum order amount"
    ELSE IF c.bakery_id # 0 /\ bakery_id # 0 /\ c.bakery_id # bakery_id
         THEN "Coupon is not valid for this bakery"
    ELSE "Coupon is valid"

\* is_valid with an expired coupon accepted
is_valid_expired_too(c, order_amount, bakery_id, now) ==
    is_valid_message(c, order_amount, bakery_id, now)
       \in {"Coupon is valid", "Coupon has expired"}

is_valid(c, order_amount, bakery_id, now) ==
    is_valid_message(c, order_amount, bakery_id, now) = "Coupon is valid"

\* calculate_discount without the cap of a percentage coupon
calculate_discount_uncapped(c, order_amount) ==
    IF c.discount_type = "percentage"
    THEN (order_amount * c.discount_value) \div 100
    ELSE Min(c.discount_value, order_amount)

\* Coupon.calculate_discount
calculate_discount(c, order_amount) ==
    IF c.discount_type = "percentage"
    THEN LET discount == (order_amount * c.discount_value) \div 100
         IN IF c.max_discount # 0 THEN Min(discount, c.max_discount) ELSE discount
    ELSE Min(c.discount_value, order_amount)

(* --------------------------- Product model ----------------------------- *)
\* reduce_stock selling what is left when the stock is short
reduce_stock_sell_rest(p, quantity) ==
    IF p.stock_quantity >= quantity
    THEN [p EXCEPT !.stock_quantity = @ - quantity]
    ELSE [p EXCEPT !.stock_quantity = 0]

\* Product.reduce_stock: the row after the call (the caller drops the boolean)
reduce_stock(p, quantity) ==
    IF p.stock_quantity >= quantity
    THEN [p EXCEPT !.stock_quantity = @ - quantity]
    ELSE p

(* ---------------------------- Order model ------------------------------ *)
\* can_cancel while the order is being prepared
can_cancel_preparing(o) == o.status \in {"pending", "confirmed", "preparing"}

\* can_cancel without its status test for delivered orders
can_cancel_delivered(o) == o.status \in {"pending", "confirmed", "delivered"}

\* Order.can_cancel
can_cancel(o) == o.status \in {"pending", "confirmed"}

\* add_status_history keeping only the newest entry
add_status_history_overwrite(o, status) ==
    [o EXCEPT !.status_history = <<status>>]

\* Order.add_status_history
add_status_history(o, status) ==
    [o EXCEPT !.status_history = Append(@, status)]

\* Notification.create_order_notification
create_order_notification(user_id, order_number, status) ==
    [user_id |-> user_id, order_number |-> order_number, status |-> status]

\* valid_transitions with a delivered order that may still be cancelled
valid_transitions_return ==
    [s \in {"pending", "confirmed", "preparing", "ready", "out_for_delivery",
            "delivered"} |->
        CASE s = "pending" -> {"confirmed", "cancelled"}
          [] s = "confirmed" -> {"preparing", "cancelled"}
          [] s = "preparing" -> {"ready", "cancelled"}
          [] s = "ready" -> {"out_for_delivery", "delivered"}
          [] s = "out_for_delivery" -> {"delivered"}
          [] s = "delivered" -> {"cancelled"}]

\* valid_transitions with a cancellation allowed once the order is on its way
valid_transitions_late_cancel ==
    [s \in {"pending", "confirmed", "preparing", "ready", "out_for_delivery"} |->
        CASE s = "pending" -> {"confirmed", "cancelled"}
          [] s = "confirmed" -> {"preparing", "cancelled"}
          [] s = "preparing" -> {"ready", "cancelled"}
          [] s = "ready" -> {"out_for_delivery", "delivered"}
          [] s = "out_for_delivery" -> {"delivered", "cancelled"}]

\* valid_transitions of update_order_status: a dict with five keys
valid_transitions ==
    [s \in {"pending", "confirmed", "preparing", "ready", "out_for_delivery"} |->
        CASE s = "pending" -> {"confirmed", "cancelled"}
          [] s = "confirmed" -> {"preparing", "cancelled"}
          [] s = "preparing" -> {"ready", "cancelled"}
          [] s = "ready" -> {"out_for_delivery", "delivered"}
          [] s = "out_for_delivery" -> {"delivered"}]

\* greatest common divisor of a >= 0 and b > 0
RECURSIVE gcd(_, _)
gcd(a, b) == IF a = 0 THEN b ELSE gcd(b % a, a)

\* the Float a / b of a rating (a >= 0, b > 0), kept exactly as a fraction in lowest terms
quotient(a, b) == [num |-> a \div gcd(a, b), den |-> b \div gcd(a, b)]

\* a customer without a checkout request in progress
IdleSession == [pc |-> "idle"]

\* a customer without an app_aws.py checkout in progress
IdleRequest == [pc |-> "idle"]

\* the stock the shop opens with
InitialStock == [p \in Products |-> IF p = 1 THEN 3 ELSE 1]

(* ------------------------------- Init ---------------------------------- *)
\* no Coupon method is being called
IdleCall == [pc |-> "none"]

\* the seeded products: both sold by bakery 1, the second one discounted
SeedProducts ==
    [p \in Products |->
        IF p = 1
        THEN [bakery_id |-> 1, name |-> "Bun", price |-> 100, discount_price |-> 0,
              stock_quantity |-> InitialStock[p], is_available |-> TRUE]
        ELSE [bakery_id |-> 1, name |-> "Cake", price |-> 300, discount_price |-> 200,
              stock_quantity |-> InitialStock[p], is_available |-> TRUE]]

\* the database after seeding with the given product rows, no request in progress
Seeded(prods) ==
    /\ bakeries = [b \in Bakeries |->
                     [owner_id |-> 10 + b, delivery_fee |-> 30,
                      min_order_amount |-> 200, is_approved |-> TRUE,
                      rating |-> quotient(0, 1), total_reviews |-> 0]]
    /\ addresses = [a \in AddressIds |-> a]
    /\ products = prods
    /\ cart_items = {}
    /\ coupons = {}
    /\ orders = <<>>
    /\ notifications = EmptyBag
    /\ stock_before = <<>>
    /\ sessions = [u \in Customers |-> IdleSession]
    /\ kv = [products |-> [p \in Products |->
                              [bakery_id |-> 1, price |-> 100 * p,
                               stock_quantity |-> InitialStock[p]]],
             cart_items |-> {}, orders |-> {}]
    /\ kv_requests = [u \in Customers |-> IdleRequest]
    /\ reviews = {}
    /\ review_requests = [k \in Connections |-> IdleRequest]

Init == Seeded(SeedProducts) /\ call = IdleCall

\* the seeded shop with any of the stock levels on its shelves
InitShelves ==
    /\ \E stock \in [Products -> StockLevels] :
          Seeded([p \in Products |->
                    [SeedProducts[p] EXCEPT !.stock_quantity = stock[p]]])
    /\ call = IdleCall

(* ------------------------------ cart ----------------------------------- *)
\* POST /cart/add (form)
add_to_cart(u, product_id, quantity, replace_cart) ==
    LET product == products[product_id]
        mine == UserCart(u)
    IN
    IF ~product.is_available \/ ~bakeries[product.bakery_id].is_approved
    THEN UNCHANGED vars
    ELSE
    \E other \in IF mine = {} THEN {FALSE}
                 ELSE {products[e.product_id].bakery_id # product.bakery_id :
                          e \in mine} :
       \* other: the row returned by .first() belongs to a different bakery
       IF other /\ ~replace_cart
       THEN UNCHANGED vars
       ELSE LET kept == IF other THEN {} ELSE mine
                old == {ci \in kept : ci.product_id = product_id}
                newq == IF old = {} THEN quantity
                        ELSE (CHOOSE ci \in old : TRUE).quantity + quantity
            IN /\ newq \in -MaxQty..MaxQty
               /\ cart_items' = ((cart_items \ mine) \cup (kept \ old)) \cup
                      {[user_id |-> u, product_id |-> product_id,
                        quantity |-> newq]}
               /\ UNCHANGED <<others, static, products, coupons, orders, notifications,
                              stock_before>>

\* the JSON handler with its test of the cart's bakery left out
api_add_to_cart_any_bakery(u, product_id, quantity) ==
    LET mine == UserCart(u)
        old == {ci \in mine : ci.product_id = product_id}
        newq == IF old = {} THEN quantity
                ELSE (CHOOSE ci \in old : TRUE).quantity + quantity
    IN /\ newq \in -MaxQty..MaxQty
       /\ cart_items' = (cart_items \ old) \cup
              {[user_id |-> u, product_id |-> product_id, quantity |-> newq]}
       /\ UNCHANGED <<others, static, products, coupons, orders, notifications,
                      stock_before>>

\* POST /api/cart/add (JSON)
api_add_to_cart(u, product_id, quantity) ==
    LET product == products[product_id]
        mine == UserCart(u)
    IN
    IF ~product.is_available
    THEN UNCHANGED vars
    ELSE
    \E other \in IF mine = {} THEN {FALSE}
                 ELSE {products[e.product_id].bakery_id # product.bakery_id :
                          e \in mine} :
       IF other
       THEN UNCHANGED vars
       ELSE LET old == {ci \in mine : ci.product_id = product_id}
                newq == IF old = {} THEN quantity
                        ELSE (CHOOSE ci \in old : TRUE).quantity + quantity
            IN /\ newq \in -MaxQty..MaxQty
               /\ cart_items' = (cart_items \ old) \cup
                      {[user_id |-> u, product_id |-> product_id, quantity |-> newq]}
               /\ UNCHANGED <<others, static, products, coupons, orders, notifications,
                              stock_before>>

\* POST /cart/update (the row is named by its product)
update_cart(u, product_id, quantity) ==
    LET found == {ci \in UserCart(u) : ci.product_id = product_id} IN
    IF found = {}
    THEN UNCHANGED vars
    ELSE /\ cart_items' =
              IF quantity <= 0
              THEN cart_items \ found
              ELSE (cart_items \ found) \cup
                      {[user_id |-> u, product_id |-> product_id, quantity |-> quantity]}
         /\ UNCHANGED <<others, static, products, coupons, orders, notifications,
                        stock_before>>

\* POST /cart/remove/<item_id>
remove_from_cart(u, product_id) ==
    LET found == {ci \in UserCart(u) : ci.product_id = product_id} IN
    IF found = {}
    THEN UNCHANGED vars
    ELSE /\ cart_items' = cart_items \ found
         /\ UNCHANGED <<others, static, products, coupons, orders, notifications,
                        stock_before>>

\* POST /cart/clear
clear_cart(u) ==
    /\ cart_items' = cart_items \ UserCart(u)
    /\ UNCHANGED <<others, static, products, coupons, orders, notifications,
                   stock_before>>

\* POST /orders/<order_number>/reorder
reorder(u, order_number) ==
    LET found == {i \in DOMAIN orders :
                     orders[i].order_number = order_number /\ orders[i].customer_id = u}
    IN
    IF found = {}
    THEN UNCHANGED vars
    ELSE LET order == orders[CHOOSE j \in found : TRUE] IN
         /\ cart_items' = (cart_items \ UserCart(u)) \cup
               {[user_id |-> u, product_id |-> it.product_id, quantity |-> it.quantity] :
                   it \in {x \in order.items : products[x.product_id].is_available}}
         /\ UNCHANGED <<others, static, products, coupons, orders, notifications,
                        stock_before>>

(* ----------------------------- checkout -------------------------------- *)
\* the order items priced at the list price, discount_price ignored
OrderItemsOf_list_price(cart, prods) ==
    {[product_id |-> ci.product_id, product_name |-> prods[ci.product_id].name,
      quantity |-> ci.quantity,
      unit_price |-> prods[ci.product_id].price,
      subtotal |-> prods[ci.product_id].price * ci.quantity] : ci \in cart}

\* the rows of order_items written for a cart (orders.py lines 84-94)
OrderItemsOf(cart, prods) ==
    {[product_id |-> ci.product_id, product_name |-> prods[ci.product_id].name,
      quantity |-> ci.quantity,
      unit_price |-> current_price(prods[ci.product_id]),
      subtotal |-> CartSubtotal(ci, prods)] : ci \in cart}

\* the product rows of the session after reduce_stock was called for every cart row
\* (a cart holds at most one row per product)
StockAfterCheckout(cart, prods) ==
    [p \in Products |->
        IF \E ci \in cart : ci.product_id = p
        THEN reduce_stock(prods[p],
                          (CHOOSE ci \in cart : ci.product_id = p).quantity)
        ELSE prods[p]]

\* the total with the delivery fee left out
OrderTotal_no_fee(subtotal, delivery_fee, discount) == subtotal - discount

\* total of checkout (orders.py line 64)
OrderTotal(subtotal, delivery_fee, discount) == subtotal + delivery_fee - discount

\* the coupon a checkout applies: the row with the typed code when it is valid
AppliedCoupon(coupon_code, subtotal, bakery_id) ==
    {c \in CouponByCode(coupon_code) :
        coupon_code # "" /\ is_valid(c, subtotal, bakery_id, Now)}

\* POST /orders/checkout
checkout(u, address_id, coupon_code, order_number) ==
    LET cart == UserCart(u) IN
    IF cart = {}
    THEN UNCHANGED vars
    ELSE
    \E first \in cart :
        LET bakery_id == products[first.product_id].bakery_id
            bakery == bakeries[bakery_id]
            subtotal == Subtotal(cart, products)
            delivery_fee == bakery.delivery_fee
            applied == AppliedCoupon(coupon_code, subtotal, bakery_id)
            discount == IF applied = {} THEN 0
                        ELSE calculate_discount(CHOOSE c \in applied : TRUE, subtotal)
            total == OrderTotal(subtotal, delivery_fee, discount)
            order == [order_number |-> order_number, customer_id |-> u,
                      bakery_id |-> bakery_id, delivery_address_id |-> address_id,
                      subtotal |-> subtotal, delivery_fee |-> delivery_fee,
                      discount |-> discount, total_amount |-> total,
                      status |-> "pending", delivered_at |-> 0,
                      items |-> OrderItemsOf(cart, products),
                      status_history |-> <<>>]
        IN
        IF subtotal < bakery.min_order_amount
        THEN UNCHANGED vars
        ELSE IF ~valid_address(u, address_id)
        THEN UNCHANGED vars
        ELSE IF \E i \in DOMAIN orders : orders[i].order_number = order_number
        THEN \* orders.order_number is unique: the INSERT fails, the session is rolled back
             UNCHANGED vars
        ELSE
        /\ Len(orders) < MaxOrders
        /\ coupons' = (coupons \ applied) \cup
                        {[c EXCEPT !.used_count = @ + 1] : c \in applied}
        /\ orders' = Append(orders, add_status_history(order, "pending"))
        /\ products' = StockAfterCheckout(cart, products)
        /\ cart_items' = cart_items \ cart
        /\ notifications' = notifications (+)
                               SetToBag({create_order_notification(u, order_number, "pending")})
        /\ stock_before' = Append(stock_before,
                               [p \in Products |-> products[p].stock_quantity])
        /\ UNCHANGED <<others, static>>

(* ------------------------- order status changes ------------------------ *)
\* POST /orders/<order_number>/cancel
cancel_order(u, order_number) ==
    LET found == {i \in DOMAIN orders :
                     orders[i].order_number = order_number /\ orders[i].customer_id = u}
    IN
    IF found = {}
    THEN UNCHANGED vars
    ELSE LET i == CHOOSE j \in found : TRUE
             order == orders[i]
         IN
         IF ~can_cancel(order)
         THEN UNCHANGED vars
         ELSE /\ orders' = [orders EXCEPT ![i] =
                              add_status_history([order EXCEPT !.status = "cancelled"],
                                                 "cancelled")]
              /\ products' = [p \in Products |->
                   [products[p] EXCEPT !.stock_quantity =
                       @ + SumOver({it \in order.items : it.product_id = p},
                                   [it \in order.items |-> it.quantity])]]
              /\ UNCHANGED <<others, static, cart_items, coupons, notifications, stock_before>>

\* POST /baker/orders/<order_id>/update-status
update_order_status(baker, order_id, new_status) ==
    IF ~baker_required(baker) THEN UNCHANGED vars ELSE
    IF ~(order_id \in DOMAIN orders /\ orders[order_id].bakery_id = BakeryOf(baker))
    THEN UNCHANGED vars
    ELSE LET order == orders[order_id] IN
         IF order.status \in DOMAIN valid_transitions
               /\ new_status \in valid_transitions[order.status]
         THEN /\ orders' = [orders EXCEPT ![order_id] =
                    [add_status_history([order EXCEPT !.status = new_status], new_status)
                       EXCEPT !.delivered_at =
                          IF new_status = "delivered" THEN Now ELSE @]]
              /\ notifications' = notifications (+)
                    SetToBag({create_order_notification(order.customer_id, order.order_number,
                                              new_status)})
              /\ UNCHANGED <<others, static, products, cart_items, coupons, stock_before>>
         ELSE UNCHANGED vars


(* -------------------------- coupon management -------------------------- *)
\* the row Coupon(...) built from a submitted form (column defaults filled in)
NewCoupon(bakery_id, form) ==
    [bakery_id |-> bakery_id, code |-> form.code,
     discount_type |-> form.discount_type, discount_value |-> form.discount_value,
     min_order_amount |-> form.min_order_amount, max_discount |-> form.max_discount,
     usage_limit |-> form.usage_limit, used_count |-> 0,
     valid_from |-> Now, valid_until |-> form.valid_until, is_active |-> TRUE]

\* the assignments of edit_coupon (baker.py lines 623-630, admin.py lines 435-442)
EditedCoupon(c, form) ==
    [c EXCEPT !.code = form.code,
              !.discount_type = form.discount_type,
              !.discount_value = form.discount_value,
              !.min_order_amount = form.min_order_amount,
              !.max_discount = form.max_discount,
              !.usage_limit = form.usage_limit,
              !.valid_until = form.valid_until]

InsertCoupon(row) ==
    IF CouponByCode(row.code) # {}
    THEN \* coupons.code is unique: the INSERT fails
         UNCHANGED vars
    ELSE /\ coupons' = coupons \cup {row}
         /\ UNCHANGED <<others, static, products, cart_items, orders, notifications,
                        stock_before>>

UpdateCoupon(found, row) ==
    IF found = {}
    THEN UNCHANGED vars
    ELSE IF \E c \in coupons \ found : c.code = row.code
    THEN UNCHANGED vars
    ELSE /\ coupons' = (coupons \ found) \cup {row}
         /\ UNCHANGED <<others, static, products, cart_items, orders, notifications,
                        stock_before>>

\* POST /baker/coupons/add
baker_add_coupon(baker, form) ==
    IF ~baker_required(baker) THEN UNCHANGED vars
    ELSE InsertCoupon(NewCoupon(BakeryOf(baker), form))

\* POST /admin/coupons/add
admin_add_coupon(form) == InsertCoupon(NewCoupon(0, form))

\* POST /baker/coupons/<coupon_id>/toggle (the row is named by its unique code)
baker_toggle_coupon(baker, code) ==
    LET found == {c \in CouponByCode(code) : c.bakery_id = BakeryOf(baker)} IN
    IF ~baker_required(baker) THEN UNCHANGED vars ELSE
    UpdateCoupon(found, IF found = {} THEN <<>>
                        ELSE [(CHOOSE c \in found : TRUE) EXCEPT !.is_active = ~@])

\* POST /admin/coupons/<coupon_id>/toggle
admin_toggle_coupon(code) ==
    LET found == CouponByCode(code) IN
    UpdateCoupon(found, IF found = {} THEN <<>>
                        ELSE [(CHOOSE c \in found : TRUE) EXCEPT !.is_active = ~@])

\* POST /baker/coupons/<coupon_id>/edit
baker_edit_coupon(baker, code, form) ==
    LET found == {c \in CouponByCode(code) : c.bakery_id = BakeryOf(baker)} IN
    IF ~baker_required(baker) THEN UNCHANGED vars ELSE
    UpdateCoupon(found, IF found = {} THEN <<>>
                        ELSE EditedCoupon(CHOOSE c \in found : TRUE, form))

\* POST /admin/coupons/<coupon_id>/edit
admin_edit_coupon(code, form) ==
    LET found == CouponByCode(code) IN
    UpdateCoupon(found, IF found = {} THEN <<>>
                        ELSE EditedCoupon(CHOOSE c \in found : TRUE, form))

\* POST /api/coupon/validate: the handler only reads; its JSON answer is kept in call
validate_coupon(code, order_amount, bakery_id) ==
    LET found == CouponByCode(code) IN
    /\ call' =
          IF found = {}
          THEN [pc |-> "validate_coupon", valid |-> FALSE,
                message |-> "Invalid coupon code", discount |-> 0]
          ELSE LET coupon == CHOOSE c \in found : TRUE IN
               IF is_valid(coupon, order_amount, bakery_id, Now)
               THEN [pc |-> "validate_coupon", valid |-> TRUE,
                     message |-> "Coupon applied!",
                     discount |-> calculate_discount(coupon, order_amount)]
               ELSE [pc |-> "validate_coupon", valid |-> FALSE,
                     message |-> is_valid_message(coupon, order_amount, bakery_id, Now),
                     discount |-> 0]
    /\ UNCHANGED <<tables, stock_before, sessions, kv, kv_requests, review_requests>>

(* ------------------------------ catalogue ------------------------------- *)
\* the product row after the assignments of edit_product
EditedProduct(p, form) ==
    [p EXCEPT !.name = form.name, !.price = form.price,
              !.discount_price = form.discount_price,
              !.stock_quantity = form.stock_quantity,
              !.is_available = form.is_available]

\* edit_product, were the rows of order_items views of the product row
edit_product_retroactive(baker, product_id, form) ==
    IF ~baker_required(baker) \/ products[product_id].bakery_id # BakeryOf(baker)
    THEN UNCHANGED vars
    ELSE LET edited == EditedProduct(products[product_id], form) IN
         /\ products' = [products EXCEPT ![product_id] = edited]
         /\ orders' = [i \in DOMAIN orders |->
               [orders[i] EXCEPT !.items =
                  {IF it.product_id = product_id
                   THEN [it EXCEPT !.product_name = edited.name,
                                   !.unit_price = current_price(edited),
                                   !.subtotal = current_price(edited) * it.quantity]
                   ELSE it : it \in orders[i].items}]]
         /\ UNCHANGED <<others, static, cart_items, coupons, notifications, stock_before>>

\* POST /baker/products/<product_id>/edit
edit_product(baker, product_id, form) ==
    IF ~baker_required(baker) \/ products[product_id].bakery_id # BakeryOf(baker)
    THEN UNCHANGED vars
    ELSE /\ products' = [products EXCEPT
                            ![product_id] = EditedProduct(products[product_id], form)]
         /\ UNCHANGED <<others, static, cart_items, coupons, orders, notifications,
                        stock_before>>

\* POST /admin/bakeries/<bakery_id>/suspend: suspends or reinstates the bakery
suspend_bakery(bakery_id) ==
    /\ bakeries' = [bakeries EXCEPT ![bakery_id].is_approved = ~@]
    /\ UNCHANGED <<others, addresses, reviews, products, cart_items, coupons, orders,
                   notifications, stock_before>>

(* ------------------------------ reviews -------------------------------- *)
\* Bakery.update_rating: the row after the call, computed from the given review rows
update_rating(b, revs) ==
    LET visible == {r \in revs : r.bakery_id = b /\ r.is_visible} IN
    IF visible # {}
    THEN [bakeries[b] EXCEPT
             !.rating = quotient(SumOver(visible, [r \in visible |-> r.rating]),
                                 Cardinality(visible)),
             !.total_reviews = Cardinality(visible)]
    ELSE [bakeries[b] EXCEPT !.rating = quotient(0, 1), !.total_reviews = 0]

\* the id the database gives to the next row of reviews
NextReviewId ==
    IF reviews = {} THEN 1
    ELSE 1 + (CHOOSE m \in {r.id : r \in reviews} : \A r \in reviews : r.id <= m)

\* the row Review(...) built by write_review (is_visible defaults to true)
NewReview(u, order_id, rating) ==
    [id |-> NextReviewId, user_id |-> u, bakery_id |-> orders[order_id].bakery_id,
     order_id |-> order_id, rating |-> rating, is_visible |-> TRUE]

\* the order query of write_review finds a row
reviewable(u, order_id) ==
    /\ order_id \in DOMAIN orders
    /\ orders[order_id].customer_id = u
    /\ orders[order_id].status = "delivered"

\* POST /customer/review/<order_id>
write_review(u, order_id, rating) ==
    IF ~reviewable(u, order_id)
    THEN UNCHANGED vars
    ELSE IF \E r \in reviews : r.order_id = order_id
    THEN UNCHANGED vars
    ELSE LET review == NewReview(u, order_id, rating)
             b == review.bakery_id
         IN /\ review.id \in ReviewIds
            /\ reviews' = reviews \cup {review}
            \* the query of update_rating flushes the new row first
            /\ bakeries' = [bakeries EXCEPT ![b] = update_rating(b, reviews \cup {review})]
            /\ UNCHANGED <<others, addresses, products, cart_items, coupons, orders,
                           notifications, stock_before>>

\* write_review on connection k, up to its two queries: the order is found and no
\* review of it exists yet
wr_begin(k, u, order_id) ==
    /\ review_requests[k].pc = "idle"
    /\ reviewable(u, order_id)
    /\ ~\E r \in reviews : r.order_id = order_id
    /\ review_requests' = [review_requests EXCEPT ![k] =
          [pc |-> "checked", user_id |-> u, order_id |-> order_id]]
    /\ UNCHANGED <<tables, stock_before, sessions, kv, kv_requests, call>>

\* write_review on connection k, from db.session.add(review) to the commit
wr_commit(k, rating) ==
    LET q == review_requests[k] IN
    /\ q.pc = "checked"
    /\ LET review == NewReview(q.user_id, q.order_id, rating)
           b == review.bakery_id
       IN /\ review.id \in ReviewIds
          /\ reviews' = reviews \cup {review}
          /\ bakeries' = [bakeries EXCEPT ![b] = update_rating(b, reviews \cup {review})]
    /\ review_requests' = [review_requests EXCEPT ![k] = IdleRequest]
    /\ UNCHANGED <<addresses, products, cart_items, coupons, orders, notifications,
                   stock_before, sessions, kv, kv_requests, call>>

\* POST /customer/reviews/<review_id>/delete: the row is deleted and committed;
\* update_rating then changes the bakery in the session, which is never committed
delete_my_review(u, review_id) ==
    LET found == {r \in reviews : r.id = review_id /\ r.user_id = u} IN
    IF found = {}
    THEN UNCHANGED vars
    ELSE /\ reviews' = reviews \ found
         /\ UNCHANGED <<others, bakeries, addresses, products, cart_items, coupons,
                        orders, notifications, stock_before>>

\* POST /admin/reviews/<review_id>/toggle
toggle_review(review_id) ==
    LET found == {r \in reviews : r.id = review_id} IN
    IF found = {}
    THEN UNCHANGED vars
    ELSE LET review == CHOOSE r \in found : TRUE
             toggled == (reviews \ found) \cup {[review EXCEPT !.is_visible = ~@]}
             b == review.bakery_id
         IN /\ reviews' = toggled
            /\ bakeries' = [bakeries EXCEPT ![b] = update_rating(b, toggled)]
            /\ UNCHANGED <<others, addresses, products, cart_items, coupons, orders,
                           notifications, stock_before>>

\* POST /admin/reviews/<review_id>/delete: as delete_my_review, for any review
delete_review(review_id) ==
    LET found == {r \in reviews : r.id = review_id} IN
    IF found = {}
    THEN UNCHANGED vars
    ELSE /\ reviews' = reviews \ found
         /\ UNCHANGED <<others, bakeries, addresses, products, cart_items, coupons,
                        orders, notifications, stock_before>>

(* ------------------- checkout, requests interleaved --------------------- *)
(* The same handler when the server runs requests in parallel.  A request    *)
(* reads through its own database session: a row is read when the handler   *)
(* first touches it and is then served from the session; the session writes *)
(* the values it computed (UPDATE ... SET column = value) when it is        *)
(* flushed and committed.  The three steps are the handler between reads.   *)

\* orders.py lines 17-38: the cart, its products and the bakery are loaded
co_load(u) ==
    LET cart == UserCart(u) IN
    /\ sessions[u].pc = "idle"
    /\ Len(orders) + Cardinality({c \in Customers : sessions[c].pc # "idle"}) < MaxOrders
    /\ cart # {}
    /\ \E first \in cart :
         LET bakery_id == products[first.product_id].bakery_id IN
         /\ Subtotal(cart, products) >= bakeries[bakery_id].min_order_amount
         /\ sessions' = [sessions EXCEPT ![u] =
               [pc |-> "loaded", cart |-> cart, products |-> products,
                bakery_id |-> bakery_id, subtotal |-> Subtotal(cart, products)]]
    /\ UNCHANGED <<tables, stock_before, kv, kv_requests, call, review_requests>>

\* orders.py lines 41-61: the address is checked, the coupon is read and applied
co_coupon(u, address_id, coupon_code) ==
    LET s == sessions[u] IN
    /\ s.pc = "loaded"
    /\ IF ~valid_address(u, address_id)
       THEN sessions' = [sessions EXCEPT ![u] = IdleSession]
       ELSE LET applied == AppliedCoupon(coupon_code, s.subtotal, s.bakery_id)
            IN sessions' = [sessions EXCEPT ![u] =
                  [pc |-> "priced", cart |-> s.cart, products |-> s.products,
                   bakery_id |-> s.bakery_id, subtotal |-> s.subtotal,
                   delivery_address_id |-> address_id,
                   \* the coupon rows of the session, used_count already raised
                   coupon |-> {[c EXCEPT !.used_count = @ + 1] : c \in applied},
                   discount |-> IF applied = {} THEN 0
                                ELSE calculate_discount(CHOOSE c \in applied : TRUE,
                                                        s.subtotal)]]
    /\ UNCHANGED <<tables, stock_before, kv, kv_requests, call, review_requests>>

\* orders.py lines 64-114: the order is built, the session is flushed and committed
co_commit(u, order_number) ==
    LET s == sessions[u]
        delivery_fee == bakeries[s.bakery_id].delivery_fee
        order == [order_number |-> order_number, customer_id |-> u,
                  bakery_id |-> s.bakery_id,
                  delivery_address_id |-> s.delivery_address_id,
                  subtotal |-> s.subtotal, delivery_fee |-> delivery_fee,
                  discount |-> s.discount,
                  total_amount |-> OrderTotal(s.subtotal, delivery_fee, s.discount),
                  status |-> "pending", delivered_at |-> 0,
                  items |-> OrderItemsOf(s.cart, s.products),
                  status_history |-> <<>>]
        reduced == StockAfterCheckout(s.cart, s.products)
    IN
    /\ s.pc = "priced"
    /\ sessions' = [sessions EXCEPT ![u] = IdleSession]
    /\ IF \E i \in DOMAIN orders : orders[i].order_number = order_number
       THEN UNCHANGED <<tables, stock_before>>
       ELSE /\ orders' = Append(orders, add_status_history(order, "pending"))
            \* UPDATE coupons SET used_count = <session value>
            /\ coupons' =
                 {IF \E sc \in s.coupon : sc.code = c.code
                  THEN [c EXCEPT !.used_count =
                           (CHOOSE sc \in s.coupon : sc.code = c.code).used_count]
                  ELSE c : c \in coupons}
            \* UPDATE products SET stock_quantity = <session value>, changed rows only
            /\ products' =
                 [p \in Products |->
                    IF reduced[p] # s.products[p]
                    THEN [products[p] EXCEPT !.stock_quantity = reduced[p].stock_quantity]
                    ELSE products[p]]
            /\ cart_items' = cart_items \ UserCart(u)
            /\ notifications' = notifications (+)
                 SetToBag({create_order_notification(u, order_number, "pending")})
            /\ stock_before' = Append(stock_before,
                                  [p \in Products |-> products[p].stock_quantity])
            /\ UNCHANGED static
    /\ UNCHANGED <<kv, kv_requests, call, review_requests>>

(* ------------------ key-value deployment (app_aws.py) -------------------- *)
(* Every call on a table is persisted on its own; there is no transaction.  *)
(* A ClientError raised by a call ends the handler in its except clause,    *)
(* which undoes nothing.                                                    *)

KvCart(u) == {ci \in kv.cart_items : ci.user_email = u}

\* POST /cart/add of app_aws.py
kv_add_to_cart(u, product_id, quantity) ==
    LET old == {ci \in KvCart(u) : ci.product_id = product_id}
        new_quantity == IF old = {} THEN quantity
                        ELSE (CHOOSE ci \in old : TRUE).quantity + quantity
    IN
    /\ kv_requests[u].pc = "idle"
    /\ new_quantity <= MaxQty
    /\ kv' = [kv EXCEPT !.cart_items = (@ \ old) \cup
                 {[user_email |-> u, product_id |-> product_id,
                   quantity |-> new_quantity]}]
    /\ UNCHANGED <<tables, stock_before, sessions, kv_requests, call, review_requests>>

\* the order row app_aws.py checkout builds from the cart rows it has read
KvOrder(u, order_number, cart) ==
    [order_number |-> order_number, customer_email |-> u,
     \* the bakery of the product read last; a cart row always has a product here
     bakery_id |-> IF cart = {} THEN 0
                   ELSE kv.products[(CHOOSE ci \in cart : TRUE).product_id].bakery_id,
     items |-> {[product_id |-> ci.product_id, quantity |-> ci.quantity,
                 unit_price |-> kv.products[ci.product_id].price,
                 subtotal |-> kv.products[ci.product_id].price * ci.quantity] :
                   ci \in cart},
     total_amount |-> SumOver(cart, [ci \in cart |->
                          kv.products[ci.product_id].price * ci.quantity]),
     status |-> "pending"]

\* POST /checkout of app_aws.py, lines 644-688: the cart is queried and the order
\* is put (put_item replaces a row with the same key)
kv_checkout_put(u, order_number) ==
    LET cart == KvCart(u) IN
    /\ kv_requests[u].pc = "idle"
    /\ Cardinality(kv.orders) < MaxOrders
    /\ cart # {}
    /\ kv' = [kv EXCEPT !.orders =
                 {o \in @ : o.order_number # order_number}
                    \cup {KvOrder(u, order_number, cart)}]
    /\ kv_requests' = [kv_requests EXCEPT ![u] =
                          [pc |-> "clearing",
                           left |-> {ci.product_id : ci \in cart}]]
    /\ UNCHANGED <<tables, stock_before, sessions, call, review_requests>>

\* lines 691-694: one delete_item of the loop that clears the cart
kv_checkout_delete(u) ==
    LET r == kv_requests[u] IN
    /\ r.pc = "clearing" /\ r.left # {}
    /\ LET product_id == CHOOSE p \in r.left : \A q \in r.left : p <= q IN
       /\ kv' = [kv EXCEPT !.cart_items =
                    {ci \in @ : ~(ci.user_email = u /\ ci.product_id = product_id)}]
       /\ kv_requests' = [kv_requests EXCEPT ![u].left = @ \ {product_id}]
    /\ UNCHANGED <<tables, stock_before, sessions, call, review_requests>>

\* lines 696-700: the loop is over, the request returns
kv_checkout_return(u) ==
    /\ kv_requests[u].pc = "clearing" /\ kv_requests[u].left = {}
    /\ kv_requests' = [kv_requests EXCEPT ![u] = IdleRequest]
    /\ UNCHANGED <<tables, stock_before, sessions, kv, call, review_requests>>

\* lines 724-727: a delete_item raises ClientError, the handler redirects
kv_checkout_error(u) ==
    /\ kv_requests[u].pc = "clearing" /\ kv_requests[u].left # {}
    /\ kv_requests' = [kv_requests EXCEPT ![u] = IdleRequest]
    /\ UNCHANGED <<tables, stock_before, sessions, kv, call, review_requests>>

\* POST /baker/orders/<order_number>/update of app_aws.py: update_item sets the
\* status of the row with that key and creates the row when there is none
kv_baker_update_order(baker, order_number, new_status) ==
    LET old == {o \in kv.orders : o.order_number = order_number} IN
    IF ~is_baker(baker)
    THEN UNCHANGED vars
    ELSE /\ old # {} \/ Cardinality(kv.orders) < MaxOrders
         /\ kv' = [kv EXCEPT !.orders = (@ \ old) \cup
                      (IF old = {}
                       THEN {[order_number |-> order_number, customer_email |-> 0,
                              bakery_id |-> 0, items |-> {}, total_amount |-> 0,
                              status |-> new_status]}
                       ELSE {[o EXCEPT !.status = new_status] : o \in old})]
         /\ UNCHANGED <<tables, stock_before, sessions, kv_requests, call,
                        review_requests>>

(* -------------------- in-memory deployment (app.py) ----------------------- *)
(* The dicts products, cart_items and orders of the module, held in kv.      *)

\* POST /cart/add of app.py
mem_add_to_cart(u, product_id, quantity) ==
    LET old == {ci \in KvCart(u) : ci.product_id = product_id}
        new_quantity == IF old = {} THEN quantity
                        ELSE (CHOOSE ci \in old : TRUE).quantity + quantity
    IN
    /\ new_quantity <= MaxQty
    /\ kv' = [kv EXCEPT !.cart_items = (@ \ old) \cup
                 {[user_email |-> u, product_id |-> product_id,
                   quantity |-> new_quantity]}]
    /\ UNCHANGED <<tables, stock_before, sessions, kv_requests, call, review_requests>>

\* POST /checkout of app.py: orders[order_number] = {...}, then the cart is emptied
mem_checkout(u, order_number) ==
    LET cart == KvCart(u)
        old == {o \in kv.orders : o.order_number = order_number}
    IN
    IF cart = {}
    THEN UNCHANGED vars
    ELSE /\ old # {} \/ Cardinality(kv.orders) < MaxOrders
         /\ kv' = [kv EXCEPT !.orders = (@ \ old) \cup {KvOrder(u, order_number, cart)},
                             !.cart_items = @ \ cart]
         /\ UNCHANGED <<tables, stock_before, sessions, kv_requests, call,
                        review_requests>>

\* POST /baker/orders/<order_number>/update of app.py ("" is a missing form field)
mem_baker_update_order(baker, order_number, new_status) ==
    LET old == {o \in kv.orders : o.order_number = order_number} IN
    IF ~is_baker(baker) \/ old = {}
    THEN UNCHANGED vars
    ELSE /\ kv' = [kv EXCEPT !.orders = (@ \ old) \cup
                      {[o EXCEPT !.status = IF new_status = "" THEN @ ELSE new_status] :
                         o \in old}]
         /\ UNCHANGED <<tables, stock_before, sessions, kv_requests, call,
                        review_requests>>

(* ---------------------------- specification ---------------------------- *)
\* the requests of a shopping customer, adding to the cart in the given quantities
CustomerRequests(quantities) ==
    \/ \E u \in Shoppers, p \in Products, q \in quantities, r \in BOOLEAN :
          add_to_cart(u, p, q, r)
    \/ \E u \in Shoppers, a \in AddressIds, code \in TypedCodes, n \in OrderNumbers :
          checkout(u, a, code, n)

\* The order engine: carts, checkout and the status machine.
Next ==
    \/ CustomerRequests(BulkQty)
    \/ \E u \in Users, n \in OrderNumbers : cancel_order(u, n)
    \/ \E b \in Users, i \in 1..MaxOrders, s \in RequestedStatuses :
          update_order_status(b, i, s)

Spec == Init /\ [][Next]_vars

\* Checkout under coupon management: every add, edit and toggle request of the
\* bakers and of the administrator, with orders left in their initial status.
NextCoupons ==
    \/ CustomerRequests(QtyInputs)
    \/ \E b \in Bakers, f \in CouponForms : baker_add_coupon(b, f)
    \/ \E f \in CouponForms : admin_add_coupon(f)
    \/ \E b \in Bakers, code \in CouponCodes : baker_toggle_coupon(b, code)
    \/ \E code \in CouponCodes : admin_toggle_coupon(code)
    \/ \E b \in Bakers, code \in CouponCodes, f \in CouponForms :
          baker_edit_coupon(b, code, f)
    \/ \E code \in CouponCodes, f \in CouponForms : admin_edit_coupon(code, f)

SpecCoupons == Init /\ [][NextCoupons]_vars


\* Two customers shopping and checking out while the server interleaves their
\* requests; the administrator creates coupons that may be used once, and the
\* coupon is validated through the JSON handler.
NextConc ==
    \/ \E u \in Customers, p \in Products, r \in BOOLEAN : add_to_cart(u, p, 1, r)
    \/ \E f \in {g \in CouponForms : g.usage_limit = 1} : admin_add_coupon(f)
    \/ \E u \in Customers : co_load(u)
    \/ \E u \in Customers, a \in AddressIds, code \in TypedCodes : co_coupon(u, a, code)
    \/ \E u \in Customers, n \in OrderNumbers : co_commit(u, n)
    \/ \E code \in CouponCodes, amount \in OrderAmounts : validate_coupon(code, amount, 0)

SpecConc == Init /\ [][NextConc]_vars

\* The key-value deployment: carts and checkout, calls failing at any point.
NextKv ==
    \/ \E u \in Customers, p \in Products, q \in QtyInputs : kv_add_to_cart(u, p, q)
    \/ \E u \in Customers, n \in OrderNumbers : kv_checkout_put(u, n)
    \/ \E u \in Customers : kv_checkout_delete(u)
    \/ \E u \in Customers : kv_checkout_return(u)
    \/ \E u \in Customers : kv_checkout_error(u)

SpecKv == Init /\ [][NextKv]_vars

\* Orders placed, cancelled and taken through the table, from any stock, with the
\* quantities the cart form accepts.
NextShelves ==
    \/ \E u \in Shoppers, q \in {-1, MaxQty} : add_to_cart(u, 1, q, FALSE)
    \/ \E u \in Shoppers : add_to_cart(u, 2, MaxQty, FALSE)
    \/ \E u \in Shoppers, n \in OrderNumbers : checkout(u, 1, "", n)
    \/ \E u \in Shoppers, n \in OrderNumbers : cancel_order(u, n)
    \/ \E i \in 1..MaxOrders, s \in {"confirmed", "cancelled"} :
          update_order_status(11, i, s)

SpecShelves == InitShelves /\ [][NextShelves]_vars

\* Customers filling carts through the form, the JSON handler and reorder while the
\* administrator suspends and reinstates bakeries.
NextApproval ==
    \/ \E u \in Shoppers, p \in Products, r \in BOOLEAN : add_to_cart(u, p, MaxQty, r)
    \/ \E u \in Shoppers, p \in Products, q \in QtyInputs : api_add_to_cart(u, p, q)
    \/ \E u \in Shoppers, n \in OrderNumbers : reorder(u, n)
    \/ \E u \in Shoppers, n \in OrderNumbers : checkout(u, 1, "", n)
    \/ \E b \in Bakeries : suspend_bakery(b)

SpecApproval == Init /\ [][NextApproval]_vars

\* The in-memory deployment: carts, checkout and the bakers' status updates.
NextMem ==
    \/ \E u \in Customers, p \in Products : mem_add_to_cart(u, p, MaxQty)
    \/ \E u \in Customers, n \in OrderNumbers : mem_checkout(u, n)
    \/ \E b \in Users, n \in OrderNumbers, s \in {"", "delivered", "pending"} :
          mem_baker_update_order(b, n, s)

SpecMem == Init /\ [][NextMem]_vars

\* The key-value deployment: one customer's orders and the bakers' status updates.
NextKvOrders ==
    \/ \E u \in Shoppers, p \in Products : kv_add_to_cart(u, p, MaxQty)
    \/ \E u \in Shoppers, n \in OrderNumbers : kv_checkout_put(u, n)
    \/ \E u \in Shoppers : kv_checkout_delete(u)
    \/ \E u \in Shoppers : kv_checkout_return(u)
    \/ \E b \in Users, n \in OrderNumbers, s \in Statuses : kv_baker_update_order(b, n, s)

SpecKvOrders == Init /\ [][NextKvOrders]_vars

\* the coupon rows the methods of Coupon are called on
CouponRows ==
    [bakery_id : Bakeries \cup {0}, code : CouponCodes,
     discount_type : {"percentage", "fixed"}, discount_value : {10, 150},
     min_order_amount : {0, 300}, max_discount : {0, 100},
     usage_limit : {0, 1}, used_count : {0, 1},
     valid_from : {0, 2, 3}, valid_until : {0, 1, 2}, is_active : BOOLEAN]

\* a method of a coupon row is called with its arguments
InitCalls ==
    /\ Seeded(SeedProducts)
    /\ call \in [pc : {"is_valid", "calculate_discount"}, coupon : CouponRows,
                 order_amount : OrderAmounts \cup {2000},
                 bakery_id : {0, 1}, now : {Now}]

\* Coupon.is_valid(order_amount, bakery_id) returns (is_valid, message)
call_is_valid ==
    /\ call.pc = "is_valid"
    /\ call' = [pc |-> "returned", method |-> "is_valid", coupon |-> call.coupon,
                order_amount |-> call.order_amount, bakery_id |-> call.bakery_id,
                now |-> call.now,
                result |-> <<is_valid(call.coupon, call.order_amount, call.bakery_id,
                                      call.now),
                             is_valid_message(call.coupon, call.order_amount,
                                              call.bakery_id, call.now)>>]
    /\ UNCHANGED <<tables, stock_before, sessions, kv, kv_requests, review_requests>>

\* Coupon.calculate_discount(order_amount)
call_calculate_discount ==
    /\ call.pc = "calculate_discount"
    /\ call' = [pc |-> "returned", method |-> "calculate_discount",
                coupon |-> call.coupon, order_amount |-> call.order_amount,
                bakery_id |-> call.bakery_id, now |-> call.now,
                result |-> calculate_discount(call.coupon, call.order_amount)]
    /\ UNCHANGED <<tables, stock_before, sessions, kv, kv_requests, review_requests>>

\* The methods of the Coupon model, called on any row with any arguments.
NextCalls == call_is_valid \/ call_calculate_discount

SpecCalls == InitCalls /\ [][NextCalls]_vars

\* Checkout while coupons are created and switched off and on.
NextPricing ==
    \/ CustomerRequests(QtyInputs)
    \/ \E b \in Bakers, f \in CouponForms : baker_add_coupon(b, f)
    \/ \E f \in CouponForms : admin_add_coupon(f)
    \/ \E code \in CouponCodes : admin_toggle_coupon(code)

SpecPricing == Init /\ [][NextPricing]_vars

\* Customers order while the bakers edit their products.
NextCatalog ==
    \/ \E u \in Shoppers, p \in Products, r \in BOOLEAN : add_to_cart(u, p, MaxQty, r)
    \/ \E u \in Shoppers, n \in OrderNumbers : checkout(u, 1, "", n)
    \/ \E b \in Bakers, p \in Products, f \in ProductForms : edit_product(b, p, f)

SpecCatalog == Init /\ [][NextCatalog]_vars

\* Customers rate delivered orders and the administrator moderates the reviews:
\* one customer orders, the baker takes the orders through the table.
NextReviews ==
    \/ \E u \in Shoppers, r \in BOOLEAN : add_to_cart(u, 1, MaxQty, r)
    \/ \E u \in Shoppers, n \in OrderNumbers : checkout(u, 1, "", n)
    \/ \E i \in 1..MaxOrders, s \in Statuses : update_order_status(11, i, s)
    \/ \E u \in Customers, i \in 1..MaxOrders, rating \in RatingInputs :
          write_review(u, i, rating)
    \/ \E k \in Connections, u \in Customers, i \in 1..MaxOrders : wr_begin(k, u, i)
    \/ \E k \in Connections, rating \in RatingInputs : wr_commit(k, rating)
    \/ \E u \in Customers, id \in ReviewIds : delete_my_review(u, id)
    \/ \E id \in ReviewIds : toggle_review(id)
    \/ \E id \in ReviewIds : delete_review(id)

SpecReviews == Init /\ [][NextReviews]_vars

\* the seeded products when each bakery sells one of them
CartProducts == [p \in Products |-> [SeedProducts[p] EXCEPT !.bakery_id = p]]

InitCart == Seeded(CartProducts) /\ call = IdleCall

\* One customer working on the cart with any integer quantity, through the form and
\* the JSON handler, checking out and ordering again.
NextCart ==
    \/ \E u \in Shoppers, p \in Products, q \in CartQty, r \in BOOLEAN :
          add_to_cart(u, p, q, r)
    \/ \E u \in Shoppers, p \in Products, q \in CartQty : api_add_to_cart(u, p, q)
    \/ \E u \in Shoppers, p \in Products, q \in CartQty : update_cart(u, p, q)
    \/ \E u \in Shoppers, p \in Products : remove_from_cart(u, p)
    \/ \E u \in Shoppers : clear_cart(u)
    \/ \E u \in Shoppers, n \in OrderNumbers : reorder(u, n)
    \/ \E u \in Shoppers, a \in AddressIds, n \in OrderNumbers : checkout(u, a, "", n)

SpecCart == InitCart /\ [][NextCart]_vars

(* ======================================================================= *)
(*                               properties                                *)
(* ======================================================================= *)
\* the quantity of product p held by an order
QuantityIn(o, p) ==
    SumOver({it \in o.items : it.product_id = p}, [it \in o.items |-> it.quantity])

\* C1: a step of update_order_status changes the status of the addressed order only
\* along the transition table; for any other pair (current, requested), unknown and
\* missing requested values included, orders (status, history, delivered_at) and
\* notifications are unchanged.  Stated of the steps that change an order or a
\* notification: such a step is a status update only if the request follows the
\* table, sets the requested status and leaves the other orders alone.
C1_StatusTable ==
    [][LET TransitionTable ==
              { <<"pending", "confirmed">>, <<"pending", "cancelled">>,
                <<"confirmed", "preparing">>, <<"confirmed", "cancelled">>,
                <<"preparing", "ready">>, <<"preparing", "cancelled">>,
                <<"ready", "out_for_delivery">>, <<"ready", "delivered">>,
                <<"out_for_delivery", "delivered">> }
       IN
       (orders' # orders \/ notifications' # notifications) =>
         \A b \in Bakers, i \in 1..MaxOrders, s \in RequestedStatuses :
            update_order_status(b, i, s) =>
               /\ i \in DOMAIN orders
               /\ <<orders[i].status, s>> \in TransitionTable
               /\ orders'[i].status = s
               /\ \A j \in DOMAIN orders \ {i} : orders'[j] = orders[j]
      ]_vars

\* an order was driven through the whole table by the baker
C1_Witness ==
    \E i \in DOMAIN orders :
       orders[i].status_history =
          <<"pending", "confirmed", "preparing", "ready", "out_for_delivery", "delivered">>

\* C2: every order created by checkout has total_amount = subtotal + delivery_fee -
\* discount, with the flat delivery fee of its bakery, and discount 0 when the
\* checkout applied no coupon (no coupon row was touched by the step).
C2_TotalAmount ==
    [][Len(orders') > Len(orders) =>
          LET o == orders'[Len(orders')] IN
          /\ o.total_amount = o.subtotal + o.delivery_fee - o.discount
          /\ o.delivery_fee = bakeries[o.bakery_id].delivery_fee
          /\ coupons' = coupons => o.discount = 0
      ]_vars

\* a discounted order and an undiscounted one, both with a delivery fee
C2_Witness ==
    /\ \E i \in DOMAIN orders : orders[i].discount > 0 /\ orders[i].delivery_fee > 0
    /\ \E i \in DOMAIN orders : orders[i].discount = 0

\* C3: every order has discount <= subtotal, whatever coupon was applied.
C3_DiscountAtMostSubtotal ==
    \A i \in DOMAIN orders : orders[i].discount <= orders[i].subtotal

\* C4: an order placed by checkout and then cancelled by its customer (cancel_order,
\* which notifies nobody) from pending or confirmed leaves the stock of each of its
\* products at the value it had before the order was placed.  Stated for the only
\* order placed so far: nothing else has touched the stock.
C4_StockRoundTrip ==
    (/\ Len(orders) = 1
     /\ orders[1].status_history \in
           {<<"pending", "cancelled">>, <<"pending", "confirmed", "cancelled">>}
     /\ ~BagIn(create_order_notification(orders[1].customer_id,
                                         orders[1].order_number, "cancelled"),
               notifications))
    => \A it \in orders[1].items :
          products[it.product_id].stock_quantity = stock_before[1][it.product_id]

\* C5: a step in which an order becomes cancelled adds, for each of its items, the
\* item's quantity to the stock of the item's product.
C5_CancelRestoresStock ==
    [][\A i \in DOMAIN orders :
          (orders[i].status # "cancelled" /\ orders'[i].status = "cancelled")
          => \A p \in Products :
                products'[p].stock_quantity =
                   products[p].stock_quantity + QuantityIn(orders[i], p)
      ]_vars

\* C6: of two customers who each check out a cart holding one unit of a product
\* whose stock is 1, at most one gets an order.
C6_LastUnit ==
    \A p \in Products :
       InitialStock[p] = 1 =>
          ~ \E i, j \in DOMAIN orders :
               /\ orders[i].customer_id # orders[j].customer_id
               /\ \A k \in {i, j} :
                     /\ Cardinality(orders[k].items) = 1
                     /\ QuantityIn(orders[k], p) = 1

\* C7: a coupon with a usage limit is never used more often than the limit.
C7_UsageLimit ==
    \A c \in coupons : c.usage_limit # 0 => c.used_count <= c.usage_limit

\* C8: a coupon that may be used once discounts at most one order.
C8_SingleUse ==
    \A c \in coupons :
       c.usage_limit = 1 =>
          Cardinality({i \in DOMAIN orders : orders[i].discount > 0}) <= 1

\* C9: cart-to-order conversion is atomic: the step that makes an order appear in
\* the store also removes the cart rows of its customer, so that no persisted state
\* holds the order together with the cart it was made from.
C9_AtomicConversion ==
    [][/\ \A o \in kv.orders' \ kv.orders :
             {ci \in kv.cart_items' : ci.user_email = o.customer_email} = {}
       /\ Len(orders') > Len(orders) =>
             {ci \in cart_items' : ci.user_id = orders'[Len(orders')].customer_id} = {}
      ]_vars

\* C10: delivered and cancelled are terminal: no step changes an order that is
\* delivered or cancelled, and a step that changes an order or the stock is neither a
\* status update nor a cancellation addressed to such an order.
C10_Terminal ==
    [][\A i \in DOMAIN orders :
          orders[i].status \in {"delivered", "cancelled"}
          => /\ orders'[i] = orders[i]
             /\ (orders' # orders \/ products' # products) =>
                   /\ \A b \in Bakers, s \in RequestedStatuses :
                         ~update_order_status(b, i, s)
                   /\ \A u \in Customers : ~cancel_order(u, orders[i].order_number)
      ]_vars

\* both terminal statuses were reached
C10_Witness ==
    /\ \E i \in DOMAIN orders : orders[i].status = "delivered"
    /\ \E i \in DOMAIN orders : orders[i].status = "cancelled"

\* C11: for every order, the subtotals of its items add up to the order's subtotal and
\* each item's subtotal is its unit_price times its quantity; the unit_price of the
\* items of an order being created is the current price of the product at that time.
C11_ItemSubtotals ==
    [][/\ \A i \in DOMAIN orders' :
             /\ SumOver(orders'[i].items,
                        [it \in orders'[i].items |-> it.subtotal]) = orders'[i].subtotal
             /\ \A it \in orders'[i].items : it.subtotal = it.unit_price * it.quantity
       /\ Len(orders') > Len(orders) =>
             \A it \in orders'[Len(orders')].items :
                it.unit_price = IF products[it.product_id].discount_price # 0
                                   /\ products[it.product_id].discount_price
                                         < products[it.product_id].price
                                THEN products[it.product_id].discount_price
                                ELSE products[it.product_id].price
      ]_vars

\* an order of two items, one of them sold at its discount price
C11_Witness ==
    \E i \in DOMAIN orders :
       /\ Cardinality(orders[i].items) = 2
       /\ \E it \in orders[i].items : it.unit_price < products[it.product_id].price

\* C12: every stored cart row has a quantity above zero.
C12_PositiveQuantity ==
    \A ci \in cart_items : ci.quantity > 0

\* C13: all rows of one user's cart are products of a single bakery.
C13_SingleBakery ==
    \A ci \in cart_items, cj \in cart_items :
       ci.user_id = cj.user_id =>
          products[ci.product_id].bakery_id = products[cj.product_id].bakery_id

\* the cart was moved from one bakery to the other after an order at the first
C13_Witness ==
    /\ \E i \in DOMAIN orders : orders[i].bakery_id = 1
    /\ \E ci \in cart_items : products[ci.product_id].bakery_id = 2

\* C14: a checkout rejected for an empty cart, a subtotal below the bakery's minimum
\* or an address of another user changes no table: no order, and cart, stock,
\* used_count, notifications and orders as before.  Stated of the steps that change
\* a table: such a step is a checkout only if none of the three reasons applies.
C14_RejectedCheckout ==
    [][tables' # tables =>
         \A u \in Shoppers, a \in AddressIds, code \in TypedCodes, n \in OrderNumbers :
            checkout(u, a, code, n) =>
               /\ UserCart(u) # {}
               /\ \A ci \in UserCart(u) :
                     Subtotal(UserCart(u), products) >=
                        bakeries[products[ci.product_id].bakery_id].min_order_amount
               /\ a \in DOMAIN addresses /\ addresses[a] = u
      ]_vars

\* a cart below the minimum while an order and a coupon exist: a checkout is
\* rejected with something to lose
C14_Witness ==
    /\ orders # <<>>
    /\ coupons # {}
    /\ \E ci \in cart_items :
          Subtotal(UserCart(ci.user_id), products) <
             bakeries[products[ci.product_id].bakery_id].min_order_amount

\* C15: a checkout given a coupon code that is unknown, or whose coupon is inactive,
\* outside its validity window, used up, below its minimum order amount or scoped to
\* another bakery, still creates the order, with discount 0 and total_amount =
\* subtotal + delivery_fee, and leaves every coupon as it was.
C15_InvalidCoupon ==
    [][Len(orders') > Len(orders) =>
         LET o == orders'[Len(orders')]
             Fails(c) ==
                \/ ~c.is_active
                \/ c.valid_from # 0 /\ Now < c.valid_from
                \/ c.valid_until # 0 /\ Now > c.valid_until
                \/ c.usage_limit # 0 /\ c.used_count >= c.usage_limit
                \/ o.subtotal < c.min_order_amount
                \/ c.bakery_id # 0 /\ c.bakery_id # o.bakery_id
         IN \A u \in Shoppers, a \in AddressIds, code \in TypedCodes, n \in OrderNumbers :
               (checkout(u, a, code, n) /\ \A c \in coupons : c.code = code => Fails(c))
               => /\ o.discount = 0
                  /\ o.total_amount = o.subtotal + o.delivery_fee
                  /\ coupons' = coupons
      ]_vars

\* orders placed while the only coupon there ever was is one that fails validation
\* (expired, switched off or scoped to the other bakery) and was never used
C15_Witness ==
    /\ Len(orders) = MaxOrders
    /\ \A i \in DOMAIN orders : orders[i].discount = 0
    /\ \E c \in coupons :
          /\ c.used_count = 0
          /\ \/ c.valid_until # 0 /\ Now > c.valid_until
             \/ ~c.is_active
             \/ c.bakery_id = 2

\* C16: no step changes a coupon's used_count, except that each committed checkout
\* in which the coupon was applied (the order it creates carries a discount) raises
\* it by exactly 1; validation in particular changes no table.
C16_UsedCount ==
    [][/\ \A c \in coupons, d \in coupons' :
             d.code = c.code =>
                d.used_count =
                   IF Len(orders') > Len(orders) /\ orders'[Len(orders')].discount > 0
                   THEN c.used_count + 1
                   ELSE c.used_count
       /\ call' # call => tables' = tables
      ]_vars

\* C17: is_valid reports the reason of the first failing check in the order
\* is_active, not yet valid, expired, usage limit, minimum order amount, bakery
\* scope, whatever combination of checks fails, and returns valid exactly when none
\* of them fails.
C17_FirstFailingCheck ==
    (call.pc = "returned" /\ call.method = "is_valid") =>
       LET c == call.coupon
           checks ==
              << <<~c.is_active, "Coupon is not active">>,
                 <<c.valid_from # 0 /\ call.now < c.valid_from, "Coupon is not yet valid">>,
                 <<c.valid_until # 0 /\ call.now > c.valid_until, "Coupon has expired">>,
                 <<c.usage_limit # 0 /\ c.used_count >= c.usage_limit,
                   "Coupon usage limit reached">>,
                 <<call.order_amount < c.min_order_amount, "Minimum order amount">>,
                 <<c.bakery_id # 0 /\ call.bakery_id # 0 /\ c.bakery_id # call.bakery_id,
                   "Coupon is not valid for this bakery">> >>
           failing == {k \in DOMAIN checks : checks[k][1]}
       IN IF failing = {}
          THEN call.result = <<TRUE, "Coupon is valid">>
          ELSE call.result =
                  <<FALSE, checks[CHOOSE k \in failing : \A j \in failing : k <= j][2]>>

\* is_valid returned for a coupon that is both used up and below its minimum amount
C17_Witness ==
    /\ call.pc = "returned" /\ call.method = "is_valid"
    /\ call.coupon.is_active
    /\ call.coupon.usage_limit = 1 /\ call.coupon.used_count = 1
    /\ call.order_amount < call.coupon.min_order_amount
    /\ call.result = <<FALSE, "Coupon usage limit reached">>

\* C18: calculate_discount(amount) is amount * discount_value / 100 for a percentage
\* coupon, capped at max_discount when there is one, and min(discount_value, amount)
\* for a fixed coupon.
C18_Discount ==
    (call.pc = "returned" /\ call.method = "calculate_discount") =>
       LET c == call.coupon
           share == (call.order_amount * c.discount_value) \div 100
       IN call.result =
             IF c.discount_type = "percentage"
             THEN IF c.max_discount # 0 /\ c.max_discount < share
                  THEN c.max_discount ELSE share
             ELSE IF c.discount_value < call.order_amount
                  THEN c.discount_value ELSE call.order_amount

\* 10% with max_discount 100 on an order of 2000 returned 100
C18_Witness ==
    /\ call.pc = "returned" /\ call.method = "calculate_discount"
    /\ call.coupon.discount_type = "percentage" /\ call.coupon.discount_value = 10
    /\ call.coupon.max_discount = 100 /\ call.order_amount = 2000
    /\ call.result = 100

\* C19: the status history of an order is append-only and mirrors its status: it
\* starts as the single entry pending written at checkout, a step that changes the
\* status appends exactly one entry with the new status, any other step leaves the
\* history alone, and the last entry is always the current status.
C19_History ==
    [][/\ DOMAIN orders \subseteq DOMAIN orders'
       /\ \A i \in DOMAIN orders' :
             LET h == orders'[i].status_history IN
             /\ h # <<>> /\ h[1] = "pending" /\ h[Len(h)] = orders'[i].status
             /\ IF i \in DOMAIN orders
                THEN IF orders'[i].status # orders[i].status
                     THEN h = Append(orders[i].status_history, orders'[i].status)
                     ELSE h = orders[i].status_history
                ELSE h = <<"pending">>
      ]_vars

\* an order confirmed by the baker and then cancelled by its customer
C19_Witness ==
    \E i \in DOMAIN orders :
       /\ orders[i].status_history = <<"pending", "confirmed", "cancelled">>
       /\ ~BagIn(create_order_notification(orders[i].customer_id,
                                           orders[i].order_number, "cancelled"),
                 notifications)

\* C20: an order's delivered_at is set if and only if its status is delivered, and a
\* step changes delivered_at only by taking the order from ready or
\* out_for_delivery to delivered.
C20_DeliveredAt ==
    [][\A i \in DOMAIN orders' :
          /\ (orders'[i].delivered_at # 0) <=> (orders'[i].status = "delivered")
          /\ (i \in DOMAIN orders /\ orders'[i].delivered_at # orders[i].delivered_at)
                => /\ orders[i].status \in {"ready", "out_for_delivery"}
                   /\ orders'[i].status = "delivered"
      ]_vars

\* an order handed over at the counter: delivered straight from ready, stamped
C20_Witness ==
    \E i \in DOMAIN orders :
       /\ orders[i].status_history =
             <<"pending", "confirmed", "preparing", "ready", "delivered">>
       /\ orders[i].delivered_at = Now

\* C21: a step that changes the status of an order, a cancellation by its customer
\* included, adds exactly one notification, addressed to the order's customer.
C21_NotifiedTransition ==
    [][\A i \in DOMAIN orders :
          orders'[i].status # orders[i].status =>
             \E s \in Statuses :
                notifications' = notifications (+)
                   SetToBag({[user_id |-> orders[i].customer_id,
                              order_number |-> orders[i].order_number,
                              status |-> s]})
      ]_vars

\* C22: the status of an order is changed only by the baker who owns its bakery
\* (update_order_status) or by its own customer (cancel_order), the latter only
\* from pending or confirmed; a request of any other account, or a cancellation from
\* another status, changes neither an order nor the stock.
C22_OwnersOnly ==
    [][(orders' # orders \/ products' # products) =>
         /\ \A a \in Users, i \in 1..MaxOrders, s \in RequestedStatuses :
               update_order_status(a, i, s) =>
                  /\ i \in DOMAIN orders
                  /\ bakeries[orders[i].bakery_id].owner_id = a
         /\ \A a \in Users, n \in OrderNumbers :
               cancel_order(a, n) =>
                  \E i \in DOMAIN orders :
                     /\ orders[i].order_number = n
                     /\ orders[i].customer_id = a
                     /\ orders[i].status \in {"pending", "confirmed"}
         /\ \A i \in DOMAIN orders :
               orders'[i].status # orders[i].status =>
                  \/ \E s \in RequestedStatuses :
                        update_order_status(bakeries[orders[i].bakery_id].owner_id, i, s)
                  \/ cancel_order(orders[i].customer_id, orders[i].order_number)
      ]_vars

\* one order cancelled by its customer while pending, another confirmed by the baker
C22_Witness ==
    /\ \E i \in DOMAIN orders :
          /\ orders[i].status_history = <<"pending", "cancelled">>
          /\ ~BagIn(create_order_notification(orders[i].customer_id,
                                              orders[i].order_number, "cancelled"),
                    notifications)
    /\ \E i \in DOMAIN orders : orders[i].status = "confirmed"

\* C23: the persisted rating of every bakery is the mean of the ratings of its
\* visible reviews and its total_reviews is their number (0 and 0 when there are
\* none), after every completed review operation.
C23_Rating ==
    \A b \in Bakeries :
       LET visible == {r \in reviews : r.bakery_id = b /\ r.is_visible} IN
       /\ bakeries[b].total_reviews = Cardinality(visible)
       /\ bakeries[b].rating =
             IF visible = {} THEN quotient(0, 1)
             ELSE quotient(SumOver(visible, [r \in visible |-> r.rating]),
                           Cardinality(visible))

\* C24: each order has at most one review, and every review belongs to a delivered
\* order whose customer is the author of the review.
C24_OneReviewPerOrder ==
    /\ \A r1, r2 \in reviews : r1.order_id = r2.order_id => r1 = r2
    /\ \A r \in reviews :
          /\ r.order_id \in DOMAIN orders
          /\ orders[r.order_id].status = "delivered"
          /\ orders[r.order_id].customer_id = r.user_id

\* C25: no step changes an existing order's items (product_name, unit_price, quantity,
\* subtotal) or its subtotal, discount and total_amount; in particular editing a
\* product's name, price, discount price or stock does not.
C25_Snapshots ==
    [][\A i \in DOMAIN orders :
          /\ i \in DOMAIN orders'
          /\ orders'[i].items = orders[i].items
          /\ orders'[i].subtotal = orders[i].subtotal
          /\ orders'[i].discount = orders[i].discount
          /\ orders'[i].total_amount = orders[i].total_amount]_vars

\* an order holds an item whose product was renamed and repriced after the order
C25_Witness ==
    \E i \in DOMAIN orders : \E it \in orders[i].items :
       /\ it.product_name # products[it.product_id].name
       /\ it.unit_price # current_price(products[it.product_id])
       /\ it.subtotal = it.unit_price * it.quantity

\* C26: order numbers are unique and no checkout replaces a stored order: every
\* stored order is still stored after a step, for the same customer and with the
\* same items and amount.
C26_UniqueOrderNumbers ==
    [][\A o \in kv.orders :
          \E o2 \in kv.orders' :
             /\ o2.order_number = o.order_number
             /\ o2.customer_email = o.customer_email
             /\ o2.items = o.items
             /\ o2.total_amount = o.total_amount]_vars

\* C28: in the variant deployments a status update changes the status of an order
\* only to a successor of its status in the transition table, and only when the
\* acting baker owns the order's bakery.
C28_VariantTransitions ==
    [][\A b \in Users, n \in OrderNumbers, s \in Statuses :
          kv.orders' # kv.orders /\ kv_baker_update_order(b, n, s) =>
             \E o \in kv.orders :
                /\ o.order_number = n
                /\ o.status \in DOMAIN valid_transitions
                /\ s \in valid_transitions[o.status]
                /\ BakeryOf(b) = o.bakery_id]_vars

\* C27: a checkout stores the order with every cart row at its full quantity; the
\* stock of a product whose cart quantity exceeds it is left as it was, and the
\* stock of the other products of the cart goes down by their quantities.
C27_SkippedDecrement ==
    [][Len(orders') > Len(orders) =>
          LET order == orders'[Len(orders')]
              cart == UserCart(order.customer_id)
          IN /\ {<<it.product_id, it.quantity>> : it \in order.items} =
                   {<<ci.product_id, ci.quantity>> : ci \in cart}
             /\ \A ci \in cart :
                   products'[ci.product_id].stock_quantity =
                      IF ci.quantity > products[ci.product_id].stock_quantity
                      THEN products[ci.product_id].stock_quantity
                      ELSE products[ci.product_id].stock_quantity - ci.quantity]_vars

\* a pending order of two units of each product: the stock of product 2, one unit,
\* is untouched and the stock of product 1 is two units lower
C27_Witness ==
    /\ Len(orders) = 1
    /\ orders[1].status = "pending"
    /\ {<<it.product_id, it.quantity>> : it \in orders[1].items} = {<<1, 2>>, <<2, 2>>}
    /\ products[2].stock_quantity = InitialStock[2]
    /\ products[1].stock_quantity = InitialStock[1] - 2

\* C29: the stock of every product is at least zero in every reachable state.
C29_StockNonNegative ==
    \A p \in Products : products[p].stock_quantity >= 0

\* C30: a row enters a cart, or its quantity is changed, only for a product that is
\* available and whose bakery is approved at that time.
C30_ApprovedOnly ==
    [][\A ci \in cart_items' \ cart_items :
          /\ products[ci.product_id].is_available
          /\ bakeries[products[ci.product_id].bakery_id].is_approved]_vars

====
